---------------------------- MODULE Spec2Model ----------------------------
(***************************************************************************)
(* Receipt ingestion pipeline of construction-receipt-api:                 *)
(*   config/s3.config.ts        key naming, S3 wrappers, file filter       *)
(*   services/upload.service.ts image processing, batch, cleanup           *)
(*   controllers/receipts.controller.ts  the receipt request handlers      *)
(*   controllers/jobs.controller.ts      createJob, deleteJob              *)
(*   middleware/auth.middleware.ts       authenticate                      *)
(* Strings are sequences of one-character strings, so that String.replace, *)
(* path.extname and toLowerCase are computed as the code computes them.    *)
(***************************************************************************)
EXTENDS Integers, Sequences, FiniteSets, TLC

(***************************************************************************)
(* Bounds of the model                                                     *)
(***************************************************************************)
MaxUploads == 1
MaxReceipts == 1
MaxBatch == 2
MaxJobs == 1

(***************************************************************************)
(* String primitives                                                       *)
(***************************************************************************)
Range(s) == {s[i] : i \in 1..Len(s)}

\* index (1-based) of the first occurrence of pat in s at or after i, 0 when
\* there is none
RECURSIVE IndexFrom(_, _, _)
IndexFrom(s, pat, i) ==
  IF i + Len(pat) - 1 > Len(s) THEN 0
  ELSE IF SubSeq(s, i, i + Len(pat) - 1) = pat THEN i
  ELSE IndexFrom(s, pat, i + 1)

IndexOf(s, pat) == IndexFrom(s, pat, 1)

\* index of the last occurrence of the character ch in s, 0 when there is none
LastIndexOf(s, ch) ==
  LET c == {i \in 1..Len(s) : s[i] = ch}
  IN  IF c = {} THEN 0 ELSE CHOOSE i \in c : \A j \in c : j <= i

\* String.prototype.replace with a string pattern: the first occurrence only
Replace(s, pat, rep) ==
  LET i == IndexOf(s, pat)
  IN  IF i = 0 THEN s
      ELSE SubSeq(s, 1, i - 1) \o rep \o SubSeq(s, i + Len(pat), Len(s))

\* String.prototype.replace with a global pattern: every occurrence
RECURSIVE ReplaceAll(_, _, _)
ReplaceAll(s, pat, rep) ==
  LET i == IndexOf(s, pat)
  IN  IF i = 0 THEN s
      ELSE SubSeq(s, 1, i - 1) \o rep \o ReplaceAll(SubSeq(s, i + Len(pat), Len(s)), pat, rep)

StartsWith(s, pre) == Len(s) >= Len(pre) /\ SubSeq(s, 1, Len(pre)) = pre
EndsWith(s, suf) == Len(s) >= Len(suf) /\ SubSeq(s, Len(s) - Len(suf) + 1, Len(s)) = suf

\* s.split(sep) for a one-character separator
RECURSIVE Split(_, _)
Split(s, sep) ==
  LET i == IndexOf(s, <<sep>>)
  IN  IF i = 0 THEN <<s>>
      ELSE <<SubSeq(s, 1, i - 1)>> \o Split(SubSeq(s, i + 1, Len(s)), sep)

DigitChar == <<"0", "1", "2", "3", "4", "5", "6", "7", "8", "9">>

\* String(n) for a natural number
RECURSIVE NumToString(_)
NumToString(n) ==
  IF n < 10 THEN <<DigitChar[n + 1]>>
  ELSE NumToString(n \div 10) \o <<DigitChar[(n % 10) + 1]>>

RECURSIVE padStart(_, _, _)
padStart(s, n, ch) == IF Len(s) >= n THEN s ELSE padStart(<<ch>> \o s, n, ch)

UpperChars == <<"A", "B", "C", "D", "E", "F", "G", "H", "I", "J", "K", "L", "M",
                "N", "O", "P", "Q", "R", "S", "T", "U", "V", "W", "X", "Y", "Z">>
LowerChars == <<"a", "b", "c", "d", "e", "f", "g", "h", "i", "j", "k", "l", "m",
                "n", "o", "p", "q", "r", "s", "t", "u", "v", "w", "x", "y", "z">>

LowerOf == [j \in 1..Len(UpperChars) |-> LowerChars[j]]
UpperIndex == [ch \in Range(UpperChars) |-> CHOOSE j \in 1..Len(UpperChars) : UpperChars[j] = ch]

ToLowerChar(ch) == IF ch \in DOMAIN UpperIndex THEN LowerOf[UpperIndex[ch]] ELSE ch

RECURSIVE toLowerCase(_)
toLowerCase(s) ==
  IF Len(s) = 0 THEN <<>> ELSE <<ToLowerChar(Head(s))>> \o toLowerCase(Tail(s))

\* path.extname: from the last '.' of the last path portion to the end; ''
\* when there is no '.' or the only '.' is the first character of the portion
extname(filename) ==
  LET base == SubSeq(filename, LastIndexOf(filename, "/") + 1, Len(filename))
      d == LastIndexOf(base, ".")
  IN  IF d <= 1 THEN <<>> ELSE SubSeq(base, d, Len(base))

(***************************************************************************)
(* config/s3.config.ts                                                     *)
(***************************************************************************)
RECEIPTS == <<"r", "e", "c", "e", "i", "p", "t", "s">>
THUMBNAILS == <<"t", "h", "u", "m", "b", "n", "a", "i", "l", "s">>
SLASH == <<"/">>

\* uuidv4(): the n-th identifier drawn; fresh for every n
uuidv4(n) == <<"x">> \o NumToString(n)

\* date: [year, month] as returned by getFullYear() and getMonth()
generateReceiptKeyByName(companyId, userId, filename, uniqueId, date) ==
  LET year == NumToString(date.year)
      month == padStart(NumToString(date.month + 1), 2, "0")
  IN  RECEIPTS \o SLASH \o companyId \o SLASH \o year \o SLASH \o month
        \o SLASH \o userId \o SLASH \o toLowerCase(filename)

generateReceiptKey(companyId, userId, filename, uniqueId, date) ==
  LET ext == toLowerCase(extname(filename))
      year == NumToString(date.year)
      month == padStart(NumToString(date.month + 1), 2, "0")
  IN  RECEIPTS \o SLASH \o companyId \o SLASH \o year \o SLASH \o month
        \o SLASH \o userId \o SLASH \o uniqueId \o ext

generateThumbnailKeyGlobal(receiptKey) == ReplaceAll(receiptKey, RECEIPTS, THUMBNAILS)

generateThumbnailKey(receiptKey) == Replace(receiptKey, RECEIPTS, THUMBNAILS)

ALLOWED_FILE_TYPES == << <<"j", "p", "e", "g">>, <<"j", "p", "g">>, <<"p", "n", "g">>,
                         <<"p", "d", "f">>, <<"h", "e", "i", "c">>, <<"h", "e", "i", "f">> >>
ALLOWED_MIME_TYPES == {"image/jpeg", "image/jpg", "image/png", "image/heic",
                       "image/heif", "application/pdf"}

\* ALLOWED_FILE_TYPES.test(ext): the pattern is not anchored
TestAllowedFileTypes(ext) ==
  \E i \in 1..Len(ALLOWED_FILE_TYPES) : IndexOf(ext, ALLOWED_FILE_TYPES[i]) # 0

\* TRUE when multer accepts the file, FALSE when cb is given the error
fileFilter(file) ==
  LET ext == toLowerCase(extname(file.originalname))
  IN  ~(~TestAllowedFileTypes(ext) \/ file.mimetype \notin ALLOWED_MIME_TYPES)

DefaultExpiresIn == 3600
URL_BASE == <<"h", "t", "t", "p", "s", ":", "/", "/", "b", "/">>
URL_EXPIRES == <<"?", "E", "x", "p", "i", "r", "e", "s", "=">>
URL_SIGNATURE == <<"&", "S", "i", "g">>

\* s3.getSignedUrl('getObject', {Key, Expires}): a URL that carries the key,
\* the lifetime and a signature
getSignedUrl(key, expiresIn) ==
  URL_BASE \o key \o URL_EXPIRES \o NumToString(expiresIn) \o URL_SIGNATURE

IsSignedUrl(url) ==
  /\ StartsWith(url, URL_BASE)
  /\ EndsWith(url, URL_SIGNATURE)
  /\ IndexOf(url, URL_EXPIRES) # 0

(***************************************************************************)
(* The object store: a function from the keys present to their content.    *)
(* A content is [fmt, w, h, src]; src is the originalKey metadata of a     *)
(* thumbnail and empty for an upload.                                      *)
(***************************************************************************)
PutObject(objs, key, content) == (key :> content) @@ objs

RemoveObjects(objs, keys) == [k \in (DOMAIN objs) \ keys |-> objs[k]]

\* deleteFile: s3.deleteObject; a missing key is no error, a failed request
\* (fails) rejects the promise
deleteFile(objs, key, fails) ==
  IF fails THEN [objs |-> objs, raised |-> TRUE]
  ELSE [objs |-> RemoveObjects(objs, {key}), raised |-> FALSE]

\* deleteFiles: no request for an empty list, else one s3.deleteObjects
deleteFiles(objs, keys, fails) ==
  IF Len(keys) = 0 THEN [objs |-> objs, raised |-> FALSE, requests |-> <<>>]
  ELSE IF fails THEN [objs |-> objs, raised |-> TRUE, requests |-> <<keys>>]
  ELSE [objs |-> RemoveObjects(objs, Range(keys)), raised |-> FALSE, requests |-> <<keys>>]

(***************************************************************************)
(* services/upload.service.ts                                              *)
(***************************************************************************)
RasterFormats == {"jpeg", "png"}
ThumbnailWidth == 400

\* resize without withoutEnlargement: every image is scaled to the width
MakeThumbnailEnlarging(content, key) ==
  [fmt |-> "jpeg", w |-> ThumbnailWidth,
   h |-> (2 * content.h * ThumbnailWidth + content.w) \div (2 * content.w),
   src |-> key]

\* sharp(...).resize(400, null, {fit: 'inside', withoutEnlargement: true}).jpeg()
MakeThumbnail(content, key) ==
  IF content.w > ThumbnailWidth
  THEN [fmt |-> "jpeg", w |-> ThumbnailWidth,
        h |-> (2 * content.h * ThumbnailWidth + content.w) \div (2 * content.w),
        src |-> key]
  ELSE [fmt |-> "jpeg", w |-> content.w, h |-> content.h, src |-> key]

\* the permanent bucket URL built at line 114
PublicUrl(key) == URL_BASE \o key

\* fault: "none", "get" (s3.getObject fails) or "put" (s3.putObject fails).
\* Every failure is rethrown as Error('Failed to process receipt image').
processReceiptImage(objs, key, fault) ==
  LET retrieved == fault # "get" /\ key \in DOMAIN objs
      decoded == retrieved /\ objs[key].fmt \in RasterFormats
      thumbnailKey == generateThumbnailKey(key)
      ok == decoded /\ fault # "put"
  IN  [ok |-> ok,
       objs |-> IF ok THEN PutObject(objs, thumbnailKey, MakeThumbnail(objs[key], key))
                ELSE objs,
       thumbnailKey |-> IF ok THEN thumbnailKey ELSE <<>>,
       thumbnailUrl |-> IF ok THEN PublicUrl(thumbnailKey) ELSE <<>>,
       originalMetadata |-> IF ok THEN [width |-> objs[key].w, height |-> objs[key].h,
                                        format |-> objs[key].fmt]
                            ELSE [width |-> 0, height |-> 0, format |-> ""],
       error |-> IF ok THEN "" ELSE "Failed to process receipt image"]

cleanupUploadedFilesRethrow(objs, keys, fails) ==
  LET allKeys == keys \o [i \in 1..Len(keys) |-> generateThumbnailKey(keys[i])]
      d == deleteFiles(objs, allKeys, fails)
  IN  [objs |-> d.objs, raised |-> d.raised, requests |-> d.requests]

cleanupUploadedFilesOriginalsOnly(objs, keys, fails) ==
  LET d == deleteFiles(objs, keys, fails)
  IN  [objs |-> d.objs, raised |-> FALSE, requests |-> d.requests]

cleanupUploadedFilesThumbnailsOnly(objs, keys, fails) ==
  LET d == deleteFiles(objs, [i \in 1..Len(keys) |-> generateThumbnailKey(keys[i])], fails)
  IN  [objs |-> d.objs, raised |-> FALSE, requests |-> d.requests]

\* the try block runs deleteFiles; the catch block only logs
cleanupUploadedFiles(objs, keys, fails) ==
  LET allKeys == keys \o [i \in 1..Len(keys) |-> generateThumbnailKey(keys[i])]
      d == deleteFiles(objs, allKeys, fails)
  IN  [objs |-> d.objs, raised |-> FALSE, requests |-> d.requests]

\* Promise.allSettled over receipts.map(processReceiptImage): every file is
\* processed whatever the others do; the results keep the input order
RECURSIVE AllSettledFrom(_, _, _, _)
Settled(r, keys, faults, results) ==
  AllSettledFrom(r.objs, keys, faults, Append(results, r))

AllSettledFrom(objs, keys, faults, results) ==
  IF Len(keys) = 0 THEN [objs |-> objs, results |-> results]
  ELSE Settled(processReceiptImage(objs, Head(keys), Head(faults)),
               Tail(keys), Tail(faults), results)

AllSettled(objs, keys, faults) == AllSettledFrom(objs, keys, faults, <<>>)

IsFulfilled(r) == r.ok

\* Promise.all semantics: the first rejection rejects the whole batch
batchProcessReceiptsAllOrNothing(objs, keys, faults, delFails) ==
  LET settled == AllSettled(objs, keys, faults)
      anyRejected == \E i \in 1..Len(keys) : ~settled.results[i].ok
      c == cleanupUploadedFiles(settled.objs, keys, delFails)
  IN  IF anyRejected
      THEN [processed |-> <<>>, failed |-> keys, objs |-> c.objs,
            requests |-> c.requests, raised |-> TRUE]
      ELSE [processed |-> settled.results, failed |-> <<>>, objs |-> settled.objs,
            requests |-> <<>>, raised |-> FALSE]

batchProcessReceipts(objs, keys, faults, delFails) ==
  LET settled == AllSettled(objs, keys, faults)
      processed == SelectSeq(settled.results, IsFulfilled)
      failedIdx == SelectSeq([i \in 1..Len(keys) |-> i],
                             LAMBDA i : ~settled.results[i].ok)
      failed == [j \in 1..Len(failedIdx) |-> keys[failedIdx[j]]]
      c == IF Len(failed) > 0 THEN cleanupUploadedFiles(settled.objs, failed, delFails)
           ELSE [objs |-> settled.objs, raised |-> FALSE, requests |-> <<>>]
  IN  [processed |-> processed, failed |-> failed, objs |-> c.objs,
       requests |-> c.requests, raised |-> c.raised]

(***************************************************************************)
(* Requests                                                                *)
(***************************************************************************)
Undefined == -1
NoJob == 0

CompanyA == <<"c", "A">>
CompanyB == <<"c", "B">>

\* req.user as set by authenticate: the payload of a valid token
Users ==
  { [userId |-> <<"u", "1">>, companyId |-> CompanyA, role |-> "ADMIN"],
    [userId |-> <<"u", "2">>, companyId |-> CompanyB, role |-> "CREW_MEMBER"] }

\* multipart files: name, declared type and what the bytes really are
JpegFile == [originalname |-> <<"a", ".", "J", "P", "G">>, mimetype |-> "image/jpeg",
             content |-> [fmt |-> "jpeg", w |-> 2000, h |-> 1500, src |-> <<>>]]
PdfFile == [originalname |-> <<"b", ".", "p", "d", "f">>, mimetype |-> "application/pdf",
            content |-> [fmt |-> "pdf", w |-> 0, h |-> 0, src |-> <<>>]]
ExeFile == [originalname |-> <<"c", ".", "e", "x", "e">>, mimetype |-> "text/plain",
            content |-> [fmt |-> "exe", w |-> 0, h |-> 0, src |-> <<>>]]
Files == {JpegFile, PdfFile, ExeFile}

Faults == {"none", "get", "put"}
\* the faults drawn for the files of a batch
BatchFaults == {"none", "put"}

\* new Date() of the requests
Now == [year |-> 2026, month |-> 10]

\* bodies of POST /upload (amount 0 is a body the schema rejects)
UploadBodies ==
  { [amount |-> 0, tax |-> Undefined, jobId |-> NoJob],
    [amount |-> 2, tax |-> Undefined, jobId |-> NoJob],
    [amount |-> 2, tax |-> 1, jobId |-> 1] }

\* bodies of POST / (imageUrl is drawn per state)
CreateBodies ==
  { [amount |-> 2, totalAmount |-> Undefined, jobId |-> NoJob],
    [amount |-> 2, totalAmount |-> 5, jobId |-> NoJob],
    [amount |-> 2, totalAmount |-> Undefined, jobId |-> 1] }

\* bodies of PUT /:id; jobId Undefined is absent, NoJob is null; status "" is absent
UpdateBodies ==
  { [amount |-> 3, tax |-> Undefined, jobId |-> Undefined, status |-> ""],
    [amount |-> Undefined, tax |-> 2, jobId |-> Undefined, status |-> ""],
    [amount |-> Undefined, tax |-> Undefined, jobId |-> NoJob, status |-> "APPROVED"],
    [amount |-> Undefined, tax |-> Undefined, jobId |-> Undefined, status |-> "PROCESSED"] }

VARIABLES
  objects,    \* the bucket: key -> content
  receipts,   \* the Receipt table: id -> row
  jobs,       \* the Job table: id -> row
  nextUuid,   \* number of uuidv4() draws so far, plus one
  nextRid,    \* number of receipt ids drawn so far, plus one
  nextJid,    \* number of job ids drawn so far, plus one
  last,       \* what the latest request did and answered
  derived,    \* the key functions applied to a pair of uploads (SpecKeys)
  call,       \* the latest direct call of a function of the service (SpecIngest)
  inflight    \* the requests being served step by step (SpecConcurrent,
              \* SpecRace, SpecAuth)

vars == <<objects, receipts, jobs, nextUuid, nextRid, nextJid, last, derived, call,
          inflight>>

NoObjects == [k \in {} |-> 0]

NoRequest ==
  [op |-> "none", companyId |-> <<>>, status |-> 0,
   body |-> <<>>,          \* the imageUrl/thumbnailUrl pairs of the response data
   files |-> <<>>,         \* the files multer stored: key, and whether processing succeeded
   requests |-> <<>>,      \* the key list of every S3 delete request issued
   signed |-> {},          \* the keys given to getSignedUrl
   removed |-> {},         \* the keys the request removed from the bucket
   created |-> {},         \* the ids of the receipts created
   caught |-> "none",      \* the error that reached the handler's outer catch
   procFailed |-> FALSE,   \* processReceiptImage threw
   delFailed |-> FALSE,    \* an S3 delete request of this request failed
   processed |-> <<>>,     \* the thumbnail keys batchProcessReceipts returned
   failed |-> <<>>]        \* the keys batchProcessReceipts gave to cleanup

NoDerivation == [phase |-> "none", args |-> <<>>, keys |-> <<>>, thumbs |-> <<>>,
                 again |-> <<>>]

NoCall ==
  [fn |-> "none",
   key |-> <<>>,           \* the key argument
   keys |-> <<>>,          \* the key list argument
   before |-> NoObjects,   \* the bucket when the call was made
   file |-> [originalname |-> <<>>, mimetype |-> ""],
   ok |-> TRUE,            \* the call returned; FALSE: it threw
   error |-> <<>>,         \* the message of the error thrown, in parts
   url |-> <<>>,           \* the URL returned
   cause |-> "none",       \* why the call failed
   requests |-> <<>>,      \* the key list of every S3 delete request issued
   prevCause |-> "none",   \* cause and error of the failed call before this one
   prevError |-> <<>>]

\* the service after construction: empty bucket, empty tables
Fresh ==
  /\ call = NoCall
  /\ inflight = <<>>
  /\ objects = NoObjects
  /\ receipts = [i \in {} |-> 0]
  /\ jobs = [i \in {} |-> 0]
  /\ nextUuid = 1
  /\ nextRid = 1
  /\ nextJid = 1
  /\ last = NoRequest

Init == Fresh /\ derived = NoDerivation

RECURSIVE Flatten(_)
Flatten(reqs) == IF Len(reqs) = 0 THEN <<>> ELSE Head(reqs) \o Flatten(Tail(reqs))

\* the keys submitted for deletion by the latest request
Submitted == Range(Flatten(last.requests))

AddRow(table, id, row) == [i \in (DOMAIN table) \cup {id} |-> IF i = id THEN row ELSE table[i]]

\* findFirst({where: {id}}): the company of the caller is not looked at
FindJobAnyCompany(jobId, companyId) == jobId \in DOMAIN jobs

\* prisma.job.findFirst({where: {id, companyId}})
FindJob(jobId, companyId) == jobId \in DOMAIN jobs /\ jobs[jobId].companyId = companyId

\* findFirst({where: {id}}): the company of the caller is not looked at
FindReceiptAnyCompany(id, companyId) == id \in DOMAIN receipts

\* prisma.receipt.findFirst({where: {id, companyId}})
FindReceipt(id, companyId) == id \in DOMAIN receipts /\ receipts[id].companyId = companyId

(***************************************************************************)
(* A handler is an operator from the current tables and bucket to the ones *)
(* it leaves behind, [objects, receipts, nextUuid, nextRid, last]; the     *)
(* action of the request installs that outcome.                            *)
(***************************************************************************)
Outcome(objs, rcpts, nUuid, nRid, lst) ==
  [objects |-> objs, receipts |-> rcpts, nextUuid |-> nUuid, nextRid |-> nRid,
   last |-> lst]

\* the request touched neither the bucket nor the Receipt table
Answer(lst) == Outcome(objects, receipts, nextUuid, nextRid, lst)

Install(r) ==
  /\ objects' = r.objects
  /\ receipts' = r.receipts
  /\ nextUuid' = r.nextUuid
  /\ nextRid' = r.nextRid
  /\ last' = r.last
  /\ UNCHANGED <<derived, call, inflight>>

(***************************************************************************)
(* controllers/jobs.controller.ts                                          *)
(***************************************************************************)
CreateJob(u) ==
  /\ nextJid <= MaxJobs
  /\ IF u.role = "CREW_MEMBER"
     THEN /\ last' = [NoRequest EXCEPT !.op = "createJob", !.companyId = u.companyId,
                                       !.status = 403]
          /\ UNCHANGED <<jobs, nextJid>>
     ELSE /\ jobs' = AddRow(jobs, nextJid, [companyId |-> u.companyId])
          /\ nextJid' = nextJid + 1
          /\ last' = [NoRequest EXCEPT !.op = "createJob", !.companyId = u.companyId,
                                       !.status = 201]
  /\ UNCHANGED <<objects, receipts, nextUuid, nextRid, derived, call, inflight>>

(***************************************************************************)
(* controllers/receipts.controller.ts                                      *)
(***************************************************************************)
NewReceipt(imageUrl, thumbnailUrl, amount, tax, totalAmount, u, jobId) ==
  [imageUrl |-> imageUrl, thumbnailUrl |-> thumbnailUrl, amount |-> amount,
   tax |-> tax, totalAmount |-> totalAmount, companyId |-> u.companyId,
   userId |-> u.userId, jobId |-> jobId, status |-> "PENDING",
   approvedAt |-> FALSE, rejectionReason |-> ""]

\* POST /: imageUrl and totalAmount are taken from the body, tax is not stored
createReceipt(u, imageUrl, body, dbFails) ==
  LET totalAmount == IF body.totalAmount # Undefined /\ body.totalAmount # 0
                     THEN body.totalAmount ELSE body.amount
      row == NewReceipt(imageUrl, <<>>, body.amount, Undefined, totalAmount, u, body.jobId)
      req == [NoRequest EXCEPT !.op = "createReceipt", !.companyId = u.companyId]
  IN  IF body.jobId # NoJob /\ ~FindJob(body.jobId, u.companyId)
      THEN Answer([req EXCEPT !.status = 404])
      ELSE IF dbFails
      THEN Answer([req EXCEPT !.status = 500, !.caught = "DbError"])
      ELSE Outcome(objects, AddRow(receipts, nextRid, row), nextUuid, nextRid + 1,
                   [req EXCEPT !.status = 201, !.created = {nextRid},
                      !.body = << [imageUrl |-> row.imageUrl,
                                   thumbnailUrl |-> row.thumbnailUrl] >>])

CreateReceipt(u, imageUrl, body, dbFails) ==
  /\ nextRid <= MaxReceipts
  /\ \E r \in {createReceipt(u, imageUrl, body, dbFails)} : Install(r)
  /\ UNCHANGED <<jobs, nextJid>>

\* POST /upload: upload.single (fileFilter, key, store), then uploadReceipt
uploadReceipt(u, file, body, fault, delFails, dbFails) ==
  LET key == generateReceiptKey(u.companyId, u.userId, file.originalname,
                                uuidv4(nextUuid), Now)
      stored == PutObject(objects, key, file.content)
      valid == body.amount > 0 /\ (body.tax = Undefined \/ body.tax >= 0)
      totalAmount == body.amount + (IF body.tax = Undefined \/ body.tax = 0
                                    THEN 0 ELSE body.tax)
      p == processReceiptImage(stored, key, fault)
      d == deleteFile(stored, key, delFails)
      c == cleanupUploadedFiles(p.objs, <<key>>, delFails)
      row == NewReceipt(key, p.thumbnailKey, body.amount, body.tax, totalAmount,
                        u, body.jobId)
      req == [NoRequest EXCEPT !.op = "uploadReceipt", !.companyId = u.companyId]
      in == [req EXCEPT !.files = << [key |-> key, ok |-> p.ok] >>]
  IN  IF ~fileFilter(file)
      THEN \* multer passes the filter's error to handleMulterError; nothing is stored
           Answer([req EXCEPT !.status = 400, !.caught = "InvalidFileType"])
      ELSE IF ~valid
      THEN Outcome(stored, receipts, nextUuid + 1, nextRid,
                   [in EXCEPT !.status = 400, !.caught = "ZodError",
                      !.files = << [key |-> key, ok |-> FALSE] >>])
      ELSE IF ~p.ok
      THEN Outcome(d.objs, receipts, nextUuid + 1, nextRid,
                   [in EXCEPT !.status = 500, !.procFailed = TRUE,
                      !.delFailed = d.raised,
                      !.requests = << <<key>> >>,
                      !.removed = DOMAIN stored \ DOMAIN d.objs,
                      !.caught = IF d.raised THEN "DeleteError" ELSE "ProcessError"])
      ELSE IF body.jobId # NoJob /\ ~FindJob(body.jobId, u.companyId)
      THEN Outcome(c.objs, receipts, nextUuid + 1, nextRid,
                   [in EXCEPT !.status = IF c.raised THEN 500 ELSE 404,
                      !.requests = c.requests,
                      !.delFailed = delFails,
                      !.removed = DOMAIN p.objs \ DOMAIN c.objs,
                      !.caught = IF c.raised THEN "CleanupError" ELSE "none"])
      ELSE IF dbFails
      THEN Outcome(p.objs, receipts, nextUuid + 1, nextRid,
                   [in EXCEPT !.status = 500, !.caught = "DbError"])
      ELSE Outcome(p.objs, AddRow(receipts, nextRid, row), nextUuid + 1, nextRid + 1,
                   [in EXCEPT !.status = 201, !.created = {nextRid},
                      !.signed = {row.imageUrl, row.thumbnailUrl},
                      !.body = << [imageUrl |-> getSignedUrl(row.imageUrl, DefaultExpiresIn),
                                   thumbnailUrl |-> getSignedUrl(row.thumbnailUrl,
                                                                 DefaultExpiresIn)] >>])

UploadReceipt(u, file, body, fault, delFails, dbFails) ==
  /\ nextUuid <= MaxUploads
  /\ \E r \in {uploadReceipt(u, file, body, fault, delFails, dbFails)} : Install(r)
  /\ UNCHANGED <<jobs, nextJid>>

\* the key callback of receiptStorage, once per file; n numbers the uuid drawn
RECURSIVE KeysFor(_, _, _)
KeysFor(u, files, n) ==
  IF Len(files) = 0 THEN <<>>
  ELSE <<generateReceiptKey(u.companyId, u.userId, Head(files).originalname,
                            uuidv4(n), Now)>> \o KeysFor(u, Tail(files), n + 1)

\* multer-s3 stores every accepted file under its key
RECURSIVE PutAll(_, _, _)
PutAll(objs, keys, files) ==
  IF Len(keys) = 0 THEN objs
  ELSE PutAll(PutObject(objs, Head(keys), Head(files).content), Tail(keys), Tail(files))

\* the rows receipt.create inserts: ids are drawn in index order
RECURSIVE InsertAll(_, _, _)
InsertAll(rcpts, rows, n) ==
  IF Len(rows) = 0 THEN rcpts
  ELSE InsertAll(AddRow(rcpts, n, Head(rows)), Tail(rows), n + 1)

\* POST /upload-multiple: upload.array (fileFilter, key, store for every file),
\* then uploadMultipleReceipts.  dbFailIdx: the files whose receipt.create fails.
uploadMultipleReceipts(u, files, faults, delFails, dbFailIdx) ==
  LET N == Len(files)
      keys == KeysFor(u, files, nextUuid)
      stored == PutAll(objects, keys, files)
      b == batchProcessReceipts(stored, keys, faults, delFails)
      \* files.map((file, index) => processedImages[index] ...)
      attempted == SelectSeq([i \in 1..N |-> i], LAMBDA i : i <= Len(b.processed))
      done == SelectSeq(attempted, LAMBDA i : i \notin dbFailIdx)
      rows == [j \in 1..Len(done) |->
                 NewReceipt(keys[done[j]], b.processed[done[j]].thumbnailKey,
                            0, Undefined, 0, u, NoJob)]
      ids == {nextRid + j - 1 : j \in 1..Len(done)}
      req == [NoRequest EXCEPT !.op = "uploadMultipleReceipts",
                               !.companyId = u.companyId]
      in == [req EXCEPT
               !.files = [i \in 1..N |->
                            [key |-> keys[i],
                             ok |-> processReceiptImage(stored, keys[i], faults[i]).ok]],
               !.processed = [j \in 1..Len(b.processed) |-> b.processed[j].thumbnailKey],
               !.failed = b.failed,
               !.requests = b.requests,
               !.delFailed = delFails /\ Len(b.requests) > 0,
               !.removed = DOMAIN stored \ DOMAIN b.objs]
  IN  IF \E i \in 1..N : ~fileFilter(files[i])
      THEN \* multer reports the filter's error and removes what it had stored
           Answer([req EXCEPT !.status = 400, !.caught = "InvalidFileType"])
      ELSE IF b.raised
      THEN Outcome(b.objs, receipts, nextUuid + N, nextRid,
                   [in EXCEPT !.status = 500, !.caught = "CleanupError"])
      ELSE IF Len(done) < Len(attempted)
      THEN \* Promise.all rejects; the other creates have run
           Outcome(b.objs, InsertAll(receipts, rows, nextRid), nextUuid + N,
                   nextRid + Len(done),
                   [in EXCEPT !.status = 500, !.caught = "DbError", !.created = ids])
      ELSE Outcome(b.objs, InsertAll(receipts, rows, nextRid), nextUuid + N,
                   nextRid + Len(done),
                   [in EXCEPT !.status = 201, !.created = ids,
                      !.body = [j \in 1..Len(rows) |->
                                  [imageUrl |-> rows[j].imageUrl,
                                   thumbnailUrl |-> rows[j].thumbnailUrl]]])

UploadMultipleReceipts(u, files, faults, delFails, dbFailIdx) ==
  /\ nextUuid <= MaxUploads
  /\ \E r \in {uploadMultipleReceipts(u, files, faults, delFails, dbFailIdx)} : Install(r)
  /\ UNCHANGED <<jobs, nextJid>>

\* a row of a response with its keys passed through getSignedUrl
WithSignedUrls(row) ==
  [imageUrl |-> getSignedUrl(row.imageUrl, DefaultExpiresIn),
   thumbnailUrl |-> IF row.thumbnailUrl # <<>>
                    THEN getSignedUrl(row.thumbnailUrl, DefaultExpiresIn) ELSE <<>>]

SignedKeysOf(row) ==
  {row.imageUrl} \cup (IF row.thumbnailUrl # <<>> THEN {row.thumbnailUrl} ELSE {})

\* the ids of a set in descending order (orderBy createdAt desc)
RECURSIVE Descending(_)
Descending(ids) ==
  IF ids = {} THEN <<>>
  ELSE LET m == CHOOSE i \in ids : \A j \in ids : j <= i
       IN  <<m>> \o Descending(ids \ {m})

\* GET /
getReceipts(u) ==
  LET ids == Descending({id \in DOMAIN receipts : receipts[id].companyId = u.companyId})
  IN  Answer([NoRequest EXCEPT !.op = "getReceipts", !.companyId = u.companyId,
                !.status = 200,
                !.body = [j \in 1..Len(ids) |-> WithSignedUrls(receipts[ids[j]])],
                !.signed = UNION {SignedKeysOf(receipts[id]) : id \in Range(ids)}])

GetReceipts(u) ==
  /\ \E r \in {getReceipts(u)} : Install(r)
  /\ UNCHANGED <<jobs, nextJid>>

\* GET /:id
getReceipt(u, id) ==
  LET req == [NoRequest EXCEPT !.op = "getReceipt", !.companyId = u.companyId]
  IN  IF ~FindReceipt(id, u.companyId)
      THEN Answer([req EXCEPT !.status = 404])
      ELSE Answer([req EXCEPT !.status = 200,
                     !.body = << WithSignedUrls(receipts[id]) >>,
                     !.signed = SignedKeysOf(receipts[id])])

GetReceipt(u, id) ==
  /\ \E r \in {getReceipt(u, id)} : Install(r)
  /\ UNCHANGED <<jobs, nextJid>>

\* the row prisma.receipt.update leaves: absent fields keep their value
UpdatedRow(existing, body) ==
  LET amount == IF body.amount # Undefined THEN body.amount ELSE existing.amount
      tax == IF body.tax # Undefined THEN body.tax
             ELSE IF existing.tax # Undefined THEN existing.tax ELSE 0
      totalAmount == IF body.amount # Undefined \/ body.tax # Undefined
                     THEN amount + tax ELSE existing.totalAmount
  IN  [existing EXCEPT
         !.amount = IF body.amount # Undefined THEN body.amount ELSE @,
         !.tax = IF body.tax # Undefined THEN body.tax ELSE @,
         !.jobId = IF body.jobId # Undefined THEN body.jobId ELSE @,
         !.status = IF body.status # "" THEN body.status ELSE @,
         !.totalAmount = totalAmount,
         !.approvedAt = IF body.status = "APPROVED" THEN TRUE ELSE @,
         !.rejectionReason = IF body.status = "REJECTED" THEN "Rejected by user" ELSE @]

\* PUT /:id without the role check of lines 452-458
updateReceiptAnyRole(u, id, body) ==
  LET req == [NoRequest EXCEPT !.op = "updateReceipt", !.companyId = u.companyId]
      valid == /\ body.amount = Undefined \/ body.amount > 0
               /\ body.tax = Undefined \/ body.tax >= 0
      updated == UpdatedRow(receipts[id], body)
  IN  IF ~valid
      THEN Answer([req EXCEPT !.status = 400, !.caught = "ZodError"])
      ELSE IF ~FindReceipt(id, u.companyId)
      THEN Answer([req EXCEPT !.status = 404])
      ELSE IF body.jobId # Undefined /\ body.jobId # NoJob
              /\ ~FindJob(body.jobId, u.companyId)
      THEN Answer([req EXCEPT !.status = 404])
      ELSE Outcome(objects, [receipts EXCEPT ![id] = updated], nextUuid, nextRid,
                   [req EXCEPT !.status = 200,
                      !.body = << [imageUrl |-> updated.imageUrl,
                                   thumbnailUrl |-> updated.thumbnailUrl] >>])

\* PUT /:id
updateReceipt(u, id, body) ==
  LET req == [NoRequest EXCEPT !.op = "updateReceipt", !.companyId = u.companyId]
      valid == /\ body.amount = Undefined \/ body.amount > 0
               /\ body.tax = Undefined \/ body.tax >= 0
      updated == UpdatedRow(receipts[id], body)
  IN  IF ~valid
      THEN Answer([req EXCEPT !.status = 400, !.caught = "ZodError"])
      ELSE IF ~FindReceipt(id, u.companyId)
      THEN Answer([req EXCEPT !.status = 404])
      ELSE IF body.status \in {"APPROVED", "REJECTED"} /\ u.role = "CREW_MEMBER"
      THEN Answer([req EXCEPT !.status = 403])
      ELSE IF body.jobId # Undefined /\ body.jobId # NoJob
              /\ ~FindJob(body.jobId, u.companyId)
      THEN Answer([req EXCEPT !.status = 404])
      ELSE Outcome(objects, [receipts EXCEPT ![id] = updated], nextUuid, nextRid,
                   [req EXCEPT !.status = 200,
                      !.body = << [imageUrl |-> updated.imageUrl,
                                   thumbnailUrl |-> updated.thumbnailUrl] >>])

UpdateReceipt(u, id, body) ==
  /\ \E r \in {updateReceipt(u, id, body)} : Install(r)
  /\ UNCHANGED <<jobs, nextJid>>

\* DELETE /:id
deleteReceipt(u, id, delFails) ==
  LET req == [NoRequest EXCEPT !.op = "deleteReceipt", !.companyId = u.companyId]
      receipt == receipts[id]
      filesToDelete == <<receipt.imageUrl>> \o
                       (IF receipt.thumbnailUrl # <<>> THEN <<receipt.thumbnailUrl>>
                        ELSE <<>>)
      d == deleteFiles(objects, filesToDelete, delFails)
  IN  IF u.role # "ADMIN"
      THEN Answer([req EXCEPT !.status = 403])
      ELSE IF ~FindReceipt(id, u.companyId)
      THEN Answer([req EXCEPT !.status = 404])
      ELSE Outcome(d.objs, [i \in (DOMAIN receipts) \ {id} |-> receipts[i]],
                   nextUuid, nextRid,
                   [req EXCEPT !.status = IF d.raised THEN 500 ELSE 200,
                      !.requests = d.requests,
                      !.delFailed = d.raised,
                      !.removed = DOMAIN objects \ DOMAIN d.objs,
                      !.caught = IF d.raised THEN "DeleteError" ELSE "none"])

DeleteReceipt(u, id, delFails) ==
  /\ \E r \in {deleteReceipt(u, id, delFails)} : Install(r)
  /\ UNCHANGED <<jobs, nextJid>>

\* the sequences of length 1..n over a set
SeqsUpTo(S, n) == UNION {[1..m -> S] : m \in 1..n}

NoFaults(n) == [i \in 1..n |-> "none"]

\* the requests of the API, served one at a time by a bucket and a database
\* that answer (the receipt of a deleted file's delete request aside)
Next ==
  \/ \E u \in Users : CreateJob(u)
  \/ \E u \in Users, imageUrl \in {<<>>} \cup DOMAIN objects, body \in CreateBodies :
       CreateReceipt(u, imageUrl, body, FALSE)
  \/ \E u \in Users, file \in Files, body \in UploadBodies :
       UploadReceipt(u, file, body, "none", FALSE, FALSE)
  \/ \E u \in Users, files \in SeqsUpTo(Files, MaxBatch) :
       UploadMultipleReceipts(u, files, NoFaults(Len(files)), FALSE, {})
  \/ \E u \in Users : GetReceipts(u)
  \/ \E u \in Users, id \in 1..MaxReceipts : GetReceipt(u, id)
  \/ \E u \in Users, id \in 1..MaxReceipts, body \in UpdateBodies :
       UpdateReceipt(u, id, body)
  \/ \E u \in Users, id \in 1..MaxReceipts, delFails \in BOOLEAN :
       DeleteReceipt(u, id, delFails)

\* the upload routes alone, with every S3 and database request free to fail
NextUpload ==
  \/ \E u \in Users : CreateJob(u)
  \/ \E u \in Users, file \in Files, body \in UploadBodies, fault \in Faults,
        delFails \in BOOLEAN, dbFails \in BOOLEAN :
       UploadReceipt(u, file, body, fault, delFails, dbFails)
  \/ \E u \in Users, files \in SeqsUpTo(Files, MaxBatch) :
       \E faults \in [1..Len(files) -> BatchFaults], delFails \in BOOLEAN,
          dbFailAt \in 0..Len(files) :
         UploadMultipleReceipts(u, files, faults, delFails, {dbFailAt} \ {0})

SpecUpload == Init /\ [][NextUpload]_vars

Spec == Init /\ [][Next]_vars

(***************************************************************************)
(* The key functions on their own: generateReceiptKey is applied to two    *)
(* uploads, generateThumbnailKey to both keys, and then to its own output. *)
(***************************************************************************)
TenantReceipts == RECEIPTS
TenantThumbnails == THUMBNAILS
UpperReceiptsFile == <<"a", ".", "R", "E", "C", "E", "I", "P", "T", "S">>
NewYear == [year |-> 2027, month |-> 0]

\* the arguments of one generateReceiptKey call, with the uuid and date drawn
KeyArgs ==
  [companyId : {CompanyA, TenantReceipts, TenantThumbnails},
   userId : {<<"u", "1">>},
   filename : {JpegFile.originalname, UpperReceiptsFile},
   uuid : 1..2,
   date : {Now, NewYear}]

InitKeys ==
  /\ Fresh
  /\ \E a \in KeyArgs, b \in KeyArgs :
       derived = [NoDerivation EXCEPT !.phase = "args", !.args = <<a, b>>]

GenerateKeys ==
  /\ derived.phase = "args"
  /\ derived' = [derived EXCEPT
       !.phase = "keys",
       !.keys = [i \in 1..2 |->
                   generateReceiptKey(derived.args[i].companyId, derived.args[i].userId,
                                      derived.args[i].filename,
                                      uuidv4(derived.args[i].uuid), derived.args[i].date)]]
  /\ UNCHANGED <<objects, receipts, jobs, nextUuid, nextRid, nextJid, last, call,
                 inflight>>

\* a call of generateThumbnailKey: it has no failing path
ThumbnailKeyCall(key) == [threw |-> FALSE, value |-> generateThumbnailKey(key)]

DeriveThumbnails ==
  /\ derived.phase = "keys"
  /\ derived' = [derived EXCEPT
       !.phase = "thumbs",
       !.thumbs = [i \in 1..2 |-> ThumbnailKeyCall(derived.keys[i]).value]]
  /\ UNCHANGED <<objects, receipts, jobs, nextUuid, nextRid, nextJid, last, call,
                 inflight>>

DeriveAgain ==
  /\ derived.phase = "thumbs"
  /\ derived' = [derived EXCEPT
       !.phase = "again",
       !.again = [i \in 1..2 |-> ThumbnailKeyCall(derived.thumbs[i])]]
  /\ UNCHANGED <<objects, receipts, jobs, nextUuid, nextRid, nextJid, last, call,
                 inflight>>

NextKeys == GenerateKeys \/ DeriveThumbnails \/ DeriveAgain

SpecKeys == InitKeys /\ [][NextKeys]_vars

(***************************************************************************)
(* The functions of the ingestion pipeline called one by one on a bucket   *)
(* that streamUploadToS3 fills: fileFilter, validateImageRequirements,     *)
(* processReceiptImage and cleanupUploadedFiles, and POST /upload over     *)
(* them.                                                                   *)
(***************************************************************************)
MaxObjects == 1

TEMP == <<"t", "e", "m", "p">>
PngName == <<"d", ".", "p", "n", "g">>

\* keys a caller can name: an upload's key, its thumbnail key, a temp key
UploadKey == generateReceiptKey(CompanyA, <<"u", "1">>, PngName, uuidv4(9), Now)
TempKey == TEMP \o SLASH \o CompanyA \o SLASH \o uuidv4(9)
IngestKeys == {UploadKey, generateThumbnailKey(UploadKey), TempKey}

SmallPng == [fmt |-> "png", w |-> 50, h |-> 50, src |-> <<>>]
Corrupt == [fmt |-> "corrupt", w |-> 0, h |-> 0, src |-> <<>>]
WideScan == [fmt |-> "png", w |-> 1000, h |-> 333, src |-> <<>>]
IngestContents == {JpegFile.content, SmallPng, WideScan, PdfFile.content, Corrupt}

SmallPngFile == [originalname |-> PngName, mimetype |-> "image/png", content |-> SmallPng]

\* the latest failed call, as the next call remembers it
PrevCause(ok, cause) == IF ok THEN call.prevCause ELSE cause
PrevError(ok, error) == IF ok THEN call.prevError ELSE error

\* streamUploadToS3: s3.upload of the stream under the key
streamUploadToS3(objs, key, content) == PutObject(objs, key, content)

StreamUploadToS3(key, content) ==
  /\ Cardinality(DOMAIN objects) < MaxObjects
  /\ objects' = streamUploadToS3(objects, key, content)
  /\ call' = [NoCall EXCEPT !.fn = "streamUploadToS3", !.key = key, !.before = objects,
                            !.prevCause = PrevCause(call.ok, call.cause),
                            !.prevError = PrevError(call.ok, call.error)]
  /\ UNCHANGED <<receipts, jobs, nextUuid, nextRid, nextJid, last, derived, inflight>>

MaxSizeMB == 10
MinWidth == 100
MinHeight == 100
BytesPerMB == 1024 * 1024

SharpUnsupported == <<"Input buffer contains unsupported image format">>

\* validateImageRequirements: sharp's metadata(), then size, then dimensions;
\* every error thrown inside is an Error and is rethrown as it is
validateImageRequirements(buffer, maxSizeMB, minWidth, minHeight) ==
  IF buffer.content.fmt \notin RasterFormats
  THEN [ok |-> FALSE, cause |-> "UnreadableImage", error |-> SharpUnsupported]
  ELSE IF buffer.length > maxSizeMB * BytesPerMB
  THEN [ok |-> FALSE, cause |-> "FileTooLarge",
        error |-> <<"Image size exceeds ">> \o NumToString(maxSizeMB) \o <<"MB limit">>]
  ELSE IF buffer.content.w = 0 \/ buffer.content.h = 0
  THEN [ok |-> FALSE, cause |-> "UnreadableImage",
        error |-> <<"Unable to determine image dimensions">>]
  ELSE IF buffer.content.w < minWidth \/ buffer.content.h < minHeight
  THEN [ok |-> FALSE, cause |-> "DimensionsTooSmall",
        error |-> <<"Image dimensions must be at least ">> \o NumToString(minWidth)
                    \o <<"x">> \o NumToString(minHeight) \o <<"px">>]
  ELSE [ok |-> TRUE, cause |-> "none", error |-> <<>>]

BufferLengths == {1024, 11 * BytesPerMB}

ValidateImageRequirements(content, length) ==
  /\ \E v \in {validateImageRequirements([content |-> content, length |-> length],
                                         MaxSizeMB, MinWidth, MinHeight)} :
       call' = [NoCall EXCEPT !.fn = "validateImageRequirements", !.before = objects,
                              !.ok = v.ok, !.cause = v.cause, !.error = v.error,
                            !.prevCause = PrevCause(call.ok, call.cause),
                            !.prevError = PrevError(call.ok, call.error)]
  /\ UNCHANGED <<objects, receipts, jobs, nextUuid, nextRid, nextJid, last, derived,
                 inflight>>

\* convertPdfToImage: not implemented, it always throws
convertPdfToImage(pdfBuffer) ==
  [ok |-> FALSE,
   error |-> <<"PDF processing not yet implemented. Please upload image files.">>]

\* what makes processReceiptImage fail on these inputs
ProcessingCause(objs, key, fault) ==
  IF fault = "get" THEN "RetrievalFailure"
  ELSE IF key \notin DOMAIN objs THEN "ObjectNotFound"
  ELSE IF objs[key].fmt = "pdf" THEN "UnsupportedFormat"
  ELSE IF objs[key].fmt \notin RasterFormats THEN "UnreadableImage"
  ELSE IF fault = "put" THEN "StorageWriteFailure"
  ELSE "none"

ProcessReceiptImage(key, fault) ==
  /\ \E p \in {processReceiptImage(objects, key, fault)} :
       /\ objects' = p.objs
       /\ call' = [NoCall EXCEPT !.fn = "processReceiptImage", !.key = key,
                                 !.before = objects, !.ok = p.ok,
                                 !.error = IF p.ok THEN <<>> ELSE <<p.error>>,
                                 !.url = p.thumbnailUrl,
                                 !.cause = ProcessingCause(objects, key, fault),
                            !.prevCause = PrevCause(call.ok, call.cause),
                            !.prevError = PrevError(call.ok, call.error)]
  /\ UNCHANGED <<receipts, jobs, nextUuid, nextRid, nextJid, last, derived, inflight>>

\* the files offered to multer: name and declared type
FilterFiles ==
  { [originalname |-> JpegFile.originalname, mimetype |-> "image/jpeg"],
    [originalname |-> PngName, mimetype |-> "text/plain"],
    [originalname |-> ExeFile.originalname, mimetype |-> "image/png"],
    [originalname |-> <<"e", ".", "j", "p", "g", "x">>, mimetype |-> "image/jpeg"],
    [originalname |-> <<"p", "n", "g">>, mimetype |-> "image/png"] }

InvalidFileType == <<"Invalid file type. Only JPEG, PNG, PDF, and HEIC files are allowed.">>

FileFilter(file) ==
  /\ \E accepted \in {fileFilter(file)} :
       call' = [NoCall EXCEPT !.fn = "fileFilter", !.file = file, !.before = objects,
                              !.ok = accepted,
                              !.cause = IF accepted THEN "none" ELSE "InvalidFileType",
                              !.error = IF accepted THEN <<>> ELSE InvalidFileType,
                            !.prevCause = PrevCause(call.ok, call.cause),
                            !.prevError = PrevError(call.ok, call.error)]
  /\ UNCHANGED <<objects, receipts, jobs, nextUuid, nextRid, nextJid, last, derived,
                 inflight>>

\* the key lists given to cleanupUploadedFiles
CleanupLists == {<<>>, <<UploadKey>>, <<UploadKey, TempKey>>}

CleanupUploadedFiles(keys, fails) ==
  /\ \E c \in {cleanupUploadedFiles(objects, keys, fails)} :
       /\ objects' = c.objs
       /\ call' = [NoCall EXCEPT !.fn = "cleanupUploadedFiles", !.keys = keys,
                                 !.before = objects, !.ok = ~c.raised,
                                 !.requests = c.requests,
                                 !.cause = IF c.raised THEN "CleanupFailure" ELSE "none",
                            !.prevCause = PrevCause(call.ok, call.cause),
                            !.prevError = PrevError(call.ok, call.error)]
  /\ UNCHANGED <<receipts, jobs, nextUuid, nextRid, nextJid, last, derived, inflight>>

NextIngest ==
  \/ \E key \in IngestKeys, content \in IngestContents : StreamUploadToS3(key, content)
  \/ \E file \in FilterFiles : FileFilter(file)
  \/ \E content \in IngestContents, length \in BufferLengths :
       ValidateImageRequirements(content, length)
  \/ \E key \in IngestKeys, fault \in Faults : ProcessReceiptImage(key, fault)
  \/ \E keys \in CleanupLists, fails \in BOOLEAN : CleanupUploadedFiles(keys, fails)

SpecIngest == Init /\ [][NextIngest]_vars

\* POST /upload with images of every size, and the list of what it stored
ImageFiles == {SmallPngFile, JpegFile}

NextImages ==
  \/ \E u \in Users : CreateJob(u)
  \/ \E u \in Users, file \in ImageFiles, body \in UploadBodies, fault \in Faults,
        delFails \in BOOLEAN :
       UploadReceipt(u, file, body, fault, delFails, FALSE)
  \/ \E u \in Users : GetReceipts(u)

SpecImages == Init /\ [][NextImages]_vars

(***************************************************************************)
(* Uploads served concurrently: the steps of POST /upload and POST         *)
(* /upload-multiple that touch the bucket, interleaved freely.  multer     *)
(* stores the files, the files are processed one await at a time (in any   *)
(* order within a batch), and the failed ones are cleaned up.              *)
(***************************************************************************)
MaxInflight == 2

\* the files of a batch request of n files
RECURSIVE BatchOf(_)
BatchOf(n) ==
  IF n = 0 THEN <<>> ELSE BatchOf(n - 1) \o <<IF n % 2 = 1 THEN PdfFile ELSE JpegFile>>

ConcurrentRequests ==
  {[kind |-> "single", files |-> <<f>>] : f \in {JpegFile, PdfFile}}
    \cup {[kind |-> "batch", files |-> BatchOf(n)] : n \in 1..MaxBatch}

RECURSIVE Todo(_)
Todo(n) == IF n = 0 THEN <<>> ELSE Todo(n - 1) \o <<"todo">>

\* upload.single / upload.array: every file is stored under a fresh key
AcceptUpload(u, request) ==
  /\ Len(inflight) < MaxInflight
  /\ \E keys \in {KeysFor(u, request.files, nextUuid)} :
       /\ objects' = PutAll(objects, keys, request.files)
       /\ inflight' = Append(inflight,
            [kind |-> request.kind, userId |-> u.userId, keys |-> keys,
             results |-> Todo(Len(keys)), pc |-> "processing",
             touched |-> Range(keys)])
  /\ nextUuid' = nextUuid + Len(request.files)
  /\ UNCHANGED <<receipts, jobs, nextRid, nextJid, last, derived, call>>

\* one processReceiptImage of upload i settles
ProcessFile(i, j) ==
  /\ inflight[i].pc = "processing"
  /\ inflight[i].results[j] = "todo"
  /\ \E p \in {processReceiptImage(objects, inflight[i].keys[j], "none")} :
       /\ objects' = p.objs
       /\ inflight' = [inflight EXCEPT
            ![i].results[j] = IF p.ok THEN "ok" ELSE "failed",
            ![i].touched = @ \cup {inflight[i].keys[j]}
                             \cup (IF p.ok THEN {p.thumbnailKey} ELSE {})]
  /\ UNCHANGED <<receipts, jobs, nextUuid, nextRid, nextJid, last, derived, call>>

\* the keys of upload i whose processing failed, in input order
FailedKeys(i) ==
  LET idx == SelectSeq([j \in 1..Len(inflight[i].keys) |-> j],
                       LAMBDA j : inflight[i].results[j] = "failed")
  IN  [n \in 1..Len(idx) |-> inflight[i].keys[idx[n]]]

\* every file has settled: deleteFile of the single upload that failed,
\* cleanupUploadedFiles of the failed files of a batch
SettleUpload(i) ==
  /\ inflight[i].pc = "processing"
  /\ \A j \in 1..Len(inflight[i].keys) : inflight[i].results[j] # "todo"
  /\ \E failed \in {FailedKeys(i)} :
       IF Len(failed) = 0
       THEN /\ inflight' = [inflight EXCEPT ![i].pc = "done"]
            /\ UNCHANGED objects
       ELSE IF inflight[i].kind = "single"
       THEN /\ objects' = deleteFile(objects, failed[1], FALSE).objs
            /\ inflight' = [inflight EXCEPT ![i].pc = "done",
                                            ![i].touched = @ \cup {failed[1]}]
       ELSE \E c \in {cleanupUploadedFiles(objects, failed, FALSE)} :
              /\ objects' = c.objs
              /\ inflight' = [inflight EXCEPT
                   ![i].pc = "done",
                   ![i].touched = @ \cup Range(Flatten(c.requests))]
  /\ UNCHANGED <<receipts, jobs, nextUuid, nextRid, nextJid, last, derived, call>>

NextConcurrent ==
  \/ \E u \in Users, request \in ConcurrentRequests : AcceptUpload(u, request)
  \/ \E i \in 1..Len(inflight), j \in 1..MaxBatch + 1 :
       j <= Len(inflight[i].keys) /\ ProcessFile(i, j)
  \/ \E i \in 1..Len(inflight) : SettleUpload(i)

SpecConcurrent == Init /\ [][NextConcurrent]_vars

(***************************************************************************)
(* generateReceiptKey and the clock.  new Date() is an instant; the code   *)
(* reads it with getFullYear() and getMonth(), the fields of the instant   *)
(* in the time zone of the process.                                        *)
(***************************************************************************)
IsLeapYear(y) == (y % 4 = 0 /\ y % 100 # 0) \/ y % 400 = 0

\* month is 0-based, as getMonth() counts
DaysInMonth(y, month) ==
  IF month = 1 THEN (IF IsLeapYear(y) THEN 29 ELSE 28)
  ELSE IF month \in {3, 5, 8, 10} THEN 30
  ELSE 31

\* getUTCFullYear(), getUTCMonth() of an instant [year, month, day, hour]
UtcDate(instant) == [year |-> instant.year, month |-> instant.month]

\* getFullYear(), getMonth() of the instant in a process whose zone is offset
\* hours east of UTC
LocalDate(instant, offset) ==
  LET h == instant.hour + offset
      d == instant.day + (IF h < 0 THEN -1 ELSE IF h >= 24 THEN 1 ELSE 0)
  IN  IF d < 1
      THEN IF instant.month = 0 THEN [year |-> instant.year - 1, month |-> 11]
           ELSE [year |-> instant.year, month |-> instant.month - 1]
      ELSE IF d > DaysInMonth(instant.year, instant.month)
      THEN IF instant.month = 11 THEN [year |-> instant.year + 1, month |-> 0]
           ELSE [year |-> instant.year, month |-> instant.month + 1]
      ELSE [year |-> instant.year, month |-> instant.month]

Instants ==
  { [year |-> 2026, month |-> 10, day |-> 6, hour |-> 12],
    [year |-> 2026, month |-> 11, day |-> 31, hour |-> 23],
    [year |-> 2027, month |-> 0, day |-> 1, hour |-> 0],
    [year |-> 2028, month |-> 1, day |-> 29, hour |-> 23] }

\* the zone of the server process: TZ is not set by the code
ZoneOffsets == {-5, 0, 2}

NoExtensionFile == <<"s", "c", "a", "n">>

ClockArgs ==
  [companyId : {CompanyA, CompanyB},
   userId : {<<"u", "1">>},
   filename : {JpegFile.originalname, UpperReceiptsFile, NoExtensionFile},
   instant : Instants,
   offset : ZoneOffsets]

InitClock ==
  /\ Fresh
  /\ \E a \in ClockArgs :
       derived = [NoDerivation EXCEPT !.phase = "clock", !.args = <<a>>]

\* generateReceiptKey(companyId, userId, filename) at the instant
GenerateKeyNow ==
  /\ derived.phase = "clock"
  /\ derived' = [derived EXCEPT
       !.phase = "first",
       !.keys = <<generateReceiptKey(derived.args[1].companyId, derived.args[1].userId,
                                     derived.args[1].filename, uuidv4(nextUuid),
                                     LocalDate(derived.args[1].instant,
                                               derived.args[1].offset))>>]
  /\ nextUuid' = nextUuid + 1
  /\ UNCHANGED <<objects, receipts, jobs, nextRid, nextJid, last, call, inflight>>

\* a second call with the same arguments at the same instant
GenerateKeyAgain ==
  /\ derived.phase = "first"
  /\ derived' = [derived EXCEPT
       !.phase = "second",
       !.keys = Append(derived.keys,
                  generateReceiptKey(derived.args[1].companyId, derived.args[1].userId,
                                     derived.args[1].filename, uuidv4(nextUuid),
                                     LocalDate(derived.args[1].instant,
                                               derived.args[1].offset)))]
  /\ nextUuid' = nextUuid + 1
  /\ UNCHANGED <<objects, receipts, jobs, nextRid, nextJid, last, call, inflight>>

NextClock == GenerateKeyNow \/ GenerateKeyAgain

SpecClock == InitClock /\ [][NextClock]_vars

(***************************************************************************)
(* Requests on the database served concurrently: every await of            *)
(* updateReceipt, createReceipt and deleteJob is a step, and the steps of  *)
(* the requests in flight interleave freely.  A request leaves inflight    *)
(* when it is answered.                                                    *)
(***************************************************************************)
RemoveAt(seq, i) == SubSeq(seq, 1, i - 1) \o SubSeq(seq, i + 1, Len(seq))

Respond(op, u, status) ==
  [NoRequest EXCEPT !.op = op, !.companyId = u.companyId, !.status = status]

\* bodies of PUT /:id: amount only, tax only, attach to job 1
RaceUpdateBodies ==
  { [amount |-> 3, tax |-> Undefined, jobId |-> Undefined, status |-> ""],
    [amount |-> Undefined, tax |-> 2, jobId |-> Undefined, status |-> ""],
    [amount |-> Undefined, tax |-> Undefined, jobId |-> 1, status |-> ""] }

\* bodies of POST /
RaceCreateBodies ==
  { [amount |-> 2, totalAmount |-> Undefined, jobId |-> NoJob],
    [amount |-> 2, totalAmount |-> Undefined, jobId |-> 1] }

\* updateReceipt up to its first await: parse, receipt.findFirst, role check
BeginUpdateReceipt(u, id, body) ==
  /\ Len(inflight) < MaxInflight
  /\ IF ~FindReceipt(id, u.companyId)
     THEN /\ last' = Respond("updateReceipt", u, 404)
          /\ UNCHANGED inflight
     ELSE IF body.status \in {"APPROVED", "REJECTED"} /\ u.role = "CREW_MEMBER"
     THEN /\ last' = Respond("updateReceipt", u, 403)
          /\ UNCHANGED inflight
     ELSE /\ inflight' = Append(inflight,
               [op |-> "updateReceipt", user |-> u, id |-> id, body |-> body,
                existingReceipt |-> receipts[id],
                pc |-> IF body.jobId # Undefined /\ body.jobId # NoJob
                       THEN "findJob" ELSE "update"])
          /\ UNCHANGED last
  /\ UNCHANGED <<objects, receipts, jobs, nextUuid, nextRid, nextJid, derived, call>>

\* job.findFirst of updateReceipt and createReceipt
FindJobStep(i) ==
  /\ inflight[i].pc = "findJob"
  /\ IF FindJob(inflight[i].body.jobId, inflight[i].user.companyId)
     THEN /\ inflight' = [inflight EXCEPT
               ![i].pc = IF inflight[i].op = "updateReceipt" THEN "update" ELSE "create"]
          /\ UNCHANGED last
     ELSE /\ inflight' = RemoveAt(inflight, i)
          /\ last' = Respond(inflight[i].op, inflight[i].user, 404)
  /\ UNCHANGED <<objects, receipts, jobs, nextUuid, nextRid, nextJid, derived, call>>

\* the row receipt.update writes: the fields of the body over the row as it
\* is now, and the total computed from the row read at the start
WrittenRow(current, existingReceipt, body) ==
  [UpdatedRow(current, body) EXCEPT
     !.totalAmount = UpdatedRow(existingReceipt, body).totalAmount]

\* receipt.update: it fails when the row is gone or the job it names is gone
\* (Receipt_jobId_fkey)
UpdateStep(i) ==
  /\ inflight[i].op = "updateReceipt"
  /\ inflight[i].pc = "update"
  /\ IF \/ inflight[i].id \notin DOMAIN receipts
        \/ /\ inflight[i].body.jobId # Undefined
           /\ inflight[i].body.jobId # NoJob
           /\ inflight[i].body.jobId \notin DOMAIN jobs
     THEN /\ last' = [Respond("updateReceipt", inflight[i].user, 500)
                        EXCEPT !.caught = "DbError"]
          /\ UNCHANGED receipts
     ELSE /\ receipts' = [receipts EXCEPT
               ![inflight[i].id] = WrittenRow(@, inflight[i].existingReceipt,
                                              inflight[i].body)]
          /\ last' = Respond("updateReceipt", inflight[i].user, 200)
  /\ inflight' = RemoveAt(inflight, i)
  /\ UNCHANGED <<objects, jobs, nextUuid, nextRid, nextJid, derived, call>>

\* createReceipt up to its first await
BeginCreateReceipt(u, body) ==
  /\ Len(inflight) < MaxInflight
  /\ inflight' = Append(inflight,
       [op |-> "createReceipt", user |-> u, body |-> body,
        pc |-> IF body.jobId # NoJob THEN "findJob" ELSE "create"])
  /\ UNCHANGED <<objects, receipts, jobs, nextUuid, nextRid, nextJid, last, derived,
                 call>>

\* receipt.create: it fails when the job it names is gone
CreateStep(i) ==
  /\ inflight[i].op = "createReceipt"
  /\ inflight[i].pc = "create"
  /\ nextRid <= MaxReceipts
  /\ IF inflight[i].body.jobId # NoJob /\ inflight[i].body.jobId \notin DOMAIN jobs
     THEN /\ last' = [Respond("createReceipt", inflight[i].user, 500)
                        EXCEPT !.caught = "DbError"]
          /\ UNCHANGED <<receipts, nextRid>>
     ELSE /\ receipts' = AddRow(receipts, nextRid,
               NewReceipt(<<>>, <<>>, inflight[i].body.amount, Undefined,
                          inflight[i].body.amount, inflight[i].user,
                          inflight[i].body.jobId))
          /\ nextRid' = nextRid + 1
          /\ last' = [Respond("createReceipt", inflight[i].user, 201)
                        EXCEPT !.created = {nextRid}]
  /\ inflight' = RemoveAt(inflight, i)
  /\ UNCHANGED <<objects, jobs, nextUuid, nextJid, derived, call>>

\* job._count.receipts
CountReceipts(jobId) == Cardinality({id \in DOMAIN receipts : receipts[id].jobId = jobId})

\* deleteJob up to job.delete: role check, job.findFirst with the count of
\* its receipts
BeginDeleteJob(u, jobId) ==
  /\ Len(inflight) < MaxInflight
  /\ IF u.role # "ADMIN"
     THEN /\ last' = Respond("deleteJob", u, 403)
          /\ UNCHANGED inflight
     ELSE IF ~FindJob(jobId, u.companyId)
     THEN /\ last' = Respond("deleteJob", u, 404)
          /\ UNCHANGED inflight
     ELSE IF CountReceipts(jobId) > 0
     THEN /\ last' = Respond("deleteJob", u, 400)
          /\ UNCHANGED inflight
     ELSE /\ inflight' = Append(inflight,
               [op |-> "deleteJob", user |-> u, jobId |-> jobId, pc |-> "delete"])
          /\ UNCHANGED last
  /\ UNCHANGED <<objects, receipts, jobs, nextUuid, nextRid, nextJid, derived, call>>

\* Receipt_jobId_fkey ... ON DELETE SET NULL
SetNull(rcpts, jobId) ==
  [id \in DOMAIN rcpts |->
     IF rcpts[id].jobId = jobId THEN [rcpts[id] EXCEPT !.jobId = NoJob] ELSE rcpts[id]]

\* job.delete: the rows that reference the job get a null jobId
DeleteJobStep(i) ==
  /\ inflight[i].op = "deleteJob"
  /\ inflight[i].pc = "delete"
  /\ IF inflight[i].jobId \notin DOMAIN jobs
     THEN /\ last' = [Respond("deleteJob", inflight[i].user, 500)
                        EXCEPT !.caught = "DbError"]
          /\ UNCHANGED <<jobs, receipts>>
     ELSE /\ jobs' = [j \in (DOMAIN jobs) \ {inflight[i].jobId} |-> jobs[j]]
          /\ receipts' = SetNull(receipts, inflight[i].jobId)
          /\ last' = Respond("deleteJob", inflight[i].user, 200)
  /\ inflight' = RemoveAt(inflight, i)
  /\ UNCHANGED <<objects, nextUuid, nextRid, nextJid, derived, call>>

NextRace ==
  \/ \E u \in Users : CreateJob(u)
  \/ \E u \in Users, body \in RaceCreateBodies : BeginCreateReceipt(u, body)
  \/ \E u \in Users, id \in 1..MaxReceipts, body \in RaceUpdateBodies :
       BeginUpdateReceipt(u, id, body)
  \/ \E u \in Users, jobId \in 1..MaxJobs : BeginDeleteJob(u, jobId)
  \/ \E i \in 1..Len(inflight) : FindJobStep(i)
  \/ \E i \in 1..Len(inflight) : CreateStep(i)
  \/ \E i \in 1..Len(inflight) : UpdateStep(i)
  \/ \E i \in 1..Len(inflight) : DeleteJobStep(i)

SpecRace == Init /\ [][NextRace]_vars

(***************************************************************************)
(* The receipt records and who may touch them: POST /, GET /, GET /:id,    *)
(* PUT /:id and DELETE /:id by users of every role of two companies.       *)
(***************************************************************************)
Manager == [userId |-> <<"u", "3">>, companyId |-> CompanyB, role |-> "MANAGER"]
RoleUsers == Users \cup {Manager}

\* the imageUrl a client gives to POST /
ClientImageUrls == {<<"i", "1">>, <<"i", "2">>}

PlainCreateBody == [amount |-> 2, totalAmount |-> Undefined, jobId |-> NoJob]

\* bodies of PUT /:id: approve, reject, and a body the schema rejects
RoleUpdateBodies ==
  { [amount |-> Undefined, tax |-> Undefined, jobId |-> Undefined, status |-> "APPROVED"],
    [amount |-> Undefined, tax |-> Undefined, jobId |-> Undefined, status |-> "REJECTED"],
    [amount |-> 0, tax |-> Undefined, jobId |-> Undefined, status |-> ""] }

NextRoles ==
  \/ \E u \in RoleUsers, imageUrl \in ClientImageUrls :
       CreateReceipt(u, imageUrl, PlainCreateBody, FALSE)
  \/ \E u \in RoleUsers : GetReceipts(u)
  \/ \E u \in RoleUsers, id \in 1..MaxReceipts : GetReceipt(u, id)
  \/ \E u \in RoleUsers, id \in 1..MaxReceipts, body \in RoleUpdateBodies :
       UpdateReceipt(u, id, body)
  \/ \E u \in RoleUsers, id \in 1..MaxReceipts : DeleteReceipt(u, id, FALSE)

SpecRoles == Init /\ [][NextRoles]_vars

(***************************************************************************)
(* Receipts and the jobs they reference: the requests that set a jobId     *)
(* and the requests that create and delete jobs, served one at a time.     *)
(***************************************************************************)
\* DELETE /jobs/:id
DeleteJob(u, jobId) ==
  /\ IF u.role # "ADMIN"
     THEN /\ last' = Respond("deleteJob", u, 403)
          /\ UNCHANGED <<jobs, receipts>>
     ELSE IF ~FindJob(jobId, u.companyId)
     THEN /\ last' = Respond("deleteJob", u, 404)
          /\ UNCHANGED <<jobs, receipts>>
     ELSE IF CountReceipts(jobId) > 0
     THEN /\ last' = Respond("deleteJob", u, 400)
          /\ UNCHANGED <<jobs, receipts>>
     ELSE /\ jobs' = [j \in (DOMAIN jobs) \ {jobId} |-> jobs[j]]
          /\ receipts' = SetNull(receipts, jobId)
          /\ last' = Respond("deleteJob", u, 200)
  /\ UNCHANGED <<objects, nextUuid, nextRid, nextJid, derived, call, inflight>>

\* bodies that name a job, or none
JobCreateBodies ==
  {[amount |-> 2, totalAmount |-> Undefined, jobId |-> j] : j \in {NoJob} \cup 1..MaxJobs}

JobUploadBodies ==
  {[amount |-> 2, tax |-> Undefined, jobId |-> j] : j \in {NoJob} \cup 1..MaxJobs}

JobUpdateBodies ==
  {[amount |-> Undefined, tax |-> Undefined, jobId |-> j, status |-> ""] :
     j \in {NoJob} \cup 1..MaxJobs}

NextJobs ==
  \/ \E u \in RoleUsers : CreateJob(u)
  \/ \E u \in RoleUsers, jobId \in 1..MaxJobs : DeleteJob(u, jobId)
  \/ \E u \in RoleUsers, body \in JobCreateBodies : CreateReceipt(u, <<>>, body, FALSE)
  \/ \E u \in RoleUsers, body \in JobUploadBodies :
       UploadReceipt(u, JpegFile, body, "none", FALSE, FALSE)
  \/ \E u \in RoleUsers, id \in 1..MaxReceipts, body \in JobUpdateBodies :
       UpdateReceipt(u, id, body)

SpecJobs == Init /\ [][NextJobs]_vars

(***************************************************************************)
(* The upload routes as chains of middleware: authenticate, then the       *)
(* multer upload (fileFilter, the key callback of receiptStorage, the      *)
(* store) and the handler.  A request is a record of inflight that moves   *)
(* from one middleware to the next; requests interleave freely.            *)
(***************************************************************************)
\* the User table: ids of the rows with isActive true
ActiveUserIds == {u.userId : u \in Users}

InactiveUserId == <<"u", "4">>

NoPayload == [userId |-> <<>>, companyId |-> <<>>, role |-> ""]

\* Authorization headers: none, a token jwt.verify rejects, and tokens signed
\* with JWT_SECRET for an active user, for an inactive user, and with a
\* payload that lacks companyId or userId
Tokens ==
  { [present |-> FALSE, verified |-> FALSE, payload |-> NoPayload],
    [present |-> TRUE, verified |-> FALSE,
     payload |-> [userId |-> <<"u", "1">>, companyId |-> CompanyA, role |-> "ADMIN"]],
    [present |-> TRUE, verified |-> TRUE,
     payload |-> [userId |-> <<"u", "1">>, companyId |-> CompanyA, role |-> "ADMIN"]],
    [present |-> TRUE, verified |-> TRUE,
     payload |-> [userId |-> InactiveUserId, companyId |-> CompanyA, role |-> "ADMIN"]],
    [present |-> TRUE, verified |-> TRUE,
     payload |-> [userId |-> <<"u", "1">>, companyId |-> <<>>, role |-> "ADMIN"]],
    [present |-> TRUE, verified |-> TRUE,
     payload |-> [userId |-> <<>>, companyId |-> CompanyA, role |-> "ADMIN"]] }

\* authenticate with the lookup of the user left out
authenticateAnyToken(token) ==
  IF ~token.present
  THEN [next |-> FALSE, status |-> 401, error |-> "No token provided", user |-> NoPayload]
  ELSE [next |-> TRUE, status |-> 0, error |-> "", user |-> token.payload]

\* authenticate: jwt.verify throws on a bad token, user.findUnique throws on
\* an undefined id; both end in the catch block
authenticate(token) ==
  IF ~token.present
  THEN [next |-> FALSE, status |-> 401, error |-> "No token provided", user |-> NoPayload]
  ELSE IF ~token.verified \/ token.payload.userId = <<>>
  THEN [next |-> FALSE, status |-> 401, error |-> "Invalid token", user |-> NoPayload]
  ELSE IF token.payload.userId \notin ActiveUserIds
  THEN [next |-> FALSE, status |-> 401, error |-> "Invalid token", user |-> NoPayload]
  ELSE [next |-> TRUE, status |-> 0, error |-> "", user |-> token.payload]

\* the key callback of receiptStorage: TRUE when it calls back with the error
KeyCallbackFails(user) == user.companyId = <<>> \/ user.userId = <<>>

ValidUploadBody == [amount |-> 2, tax |-> Undefined, jobId |-> NoJob]

\* the files of a request to a route
RouteFiles(route) == IF route = "upload" THEN <<JpegFile>> ELSE BatchOf(MaxBatch)

\* a request arrives at POST /upload or POST /upload-multiple
ReceiveUpload(route, token) ==
  /\ Len(inflight) < MaxInflight
  /\ inflight' = Append(inflight,
       [route |-> route, token |-> token, pc |-> "authenticate", user |-> NoPayload,
        authenticated |-> FALSE, wrote |-> {}, status |-> 0, error |-> ""])
  /\ UNCHANGED <<objects, receipts, jobs, nextUuid, nextRid, nextJid, last, derived,
                 call>>

Authenticate(i) ==
  /\ inflight[i].pc = "authenticate"
  /\ \E a \in {authenticate(inflight[i].token)} :
       inflight' = [inflight EXCEPT
         ![i].pc = IF a.next THEN "upload" ELSE "answered",
         ![i].authenticated = a.next,
         ![i].user = a.user,
         ![i].status = a.status,
         ![i].error = a.error]
  /\ UNCHANGED <<objects, receipts, jobs, nextUuid, nextRid, nextJid, last, derived,
                 call>>

\* the keys multer stored for the request
StoredKeys(files) == {files[j].key : j \in 1..Len(files)}

\* upload.single / upload.array without a usable req.user: the key callback
\* fails, handleMulterError answers 400 with the message
RejectUpload(i) ==
  /\ inflight[i].pc = "upload"
  /\ KeyCallbackFails(inflight[i].user)
  /\ inflight' = [inflight EXCEPT ![i].pc = "answered", ![i].status = 400,
                                  ![i].error = "User authentication required"]
  /\ UNCHANGED <<objects, receipts, jobs, nextUuid, nextRid, nextJid, last, derived,
                 call>>

\* upload.single / upload.array and the handler
ServeUpload(i) ==
  /\ inflight[i].pc = "upload"
  /\ ~KeyCallbackFails(inflight[i].user)
  /\ nextUuid <= MaxUploads
  /\ \E r \in {IF inflight[i].route = "upload"
               THEN uploadReceipt(inflight[i].user, JpegFile, ValidUploadBody,
                                  "none", FALSE, FALSE)
               ELSE uploadMultipleReceipts(inflight[i].user, RouteFiles(inflight[i].route),
                                           NoFaults(MaxBatch), FALSE, {})} :
       /\ objects' = r.objects
       /\ receipts' = r.receipts
       /\ nextUuid' = r.nextUuid
       /\ nextRid' = r.nextRid
       /\ last' = r.last
       /\ inflight' = [inflight EXCEPT ![i].pc = "answered",
                                       ![i].status = r.last.status,
                                       ![i].wrote = StoredKeys(r.last.files)]
  /\ UNCHANGED <<jobs, nextJid, derived, call>>

NextAuth ==
  \/ \E route \in {"upload", "upload-multiple"}, token \in Tokens :
       ReceiveUpload(route, token)
  \/ \E i \in 1..Len(inflight) : Authenticate(i)
  \/ \E i \in 1..Len(inflight) : RejectUpload(i)
  \/ \E i \in 1..Len(inflight) : ServeUpload(i)

SpecAuth == Init /\ [][NextAuth]_vars

(***************************************************************************)
(* Properties of the upload routes.                                        *)
(***************************************************************************)
\* the stored files of the latest request whose processing succeeded / failed
SucceededIdx == SelectSeq([i \in 1..Len(last.files) |-> i], LAMBDA i : last.files[i].ok)
FailedIdx == SelectSeq([i \in 1..Len(last.files) |-> i], LAMBDA i : ~last.files[i].ok)

\* C1: every receipt a batch upload creates pairs a file's original key with
\* the thumbnail key derived from that same key, and no receipt is created
\* whose imageUrl is the key of a file whose processing failed.
BatchReceiptsPairOwnThumbnail ==
  last.op = "uploadMultipleReceipts" =>
    \A id \in last.created :
      /\ receipts[id].thumbnailUrl = generateThumbnailKey(receipts[id].imageUrl)
      /\ \A i \in 1..Len(last.files) :
           ~last.files[i].ok => receipts[id].imageUrl # last.files[i].key

\* C2: batchProcessReceipts over N files of which M fail returns exactly N-M
\* results, the thumbnails of the succeeded files in input order; it submits
\* to cleanup exactly the M failed originals and their M derived thumbnail
\* keys and no key of a succeeded file; a failure neither aborts the batch nor
\* removes what a succeeded file left in the bucket.
BatchPartialFailure ==
  (last.op = "uploadMultipleReceipts" /\ Len(last.files) > 0) =>
    LET N == Len(last.files)
        M == Len(FailedIdx)
        failedKeys == {last.files[i].key : i \in Range(FailedIdx)}
    IN  /\ Len(last.processed) = N - M
        /\ \A j \in 1..Len(SucceededIdx) :
             /\ j \in DOMAIN last.processed
             /\ last.processed[j] = generateThumbnailKey(last.files[SucceededIdx[j]].key)
        /\ Submitted = failedKeys \cup {generateThumbnailKey(k) : k \in failedKeys}
        /\ Len(Flatten(last.requests)) = 2 * M
        /\ last.failed = [j \in 1..M |-> last.files[FailedIdx[j]].key]
        /\ \A i \in Range(SucceededIdx) :
             /\ last.files[i].key \in DOMAIN objects
             /\ generateThumbnailKey(last.files[i].key) \in DOMAIN objects
        /\ last.caught \in {"none", "DbError"}

\* C2 witness: a batch of two stored files, one processed and one failed
BatchPartialFailureSeen ==
  /\ last.op = "uploadMultipleReceipts"
  /\ Len(last.files) = 2
  /\ Len(SucceededIdx) = 1
  /\ Len(last.processed) = 1
  /\ Len(last.requests) = 1

\* C3: an upload whose stored original ends up referenced by no receipt has
\* submitted the original, and the thumbnail if one was created, for deletion
\* by the time it answers.
UploadFailureCleansUp ==
  last.op \in {"uploadReceipt", "uploadMultipleReceipts"} =>
    \A i \in 1..Len(last.files) :
      (~\E id \in DOMAIN receipts : receipts[id].imageUrl = last.files[i].key) =>
        /\ last.files[i].key \in Submitted
        /\ last.files[i].ok => generateThumbnailKey(last.files[i].key) \in Submitted

\* C4: when processReceiptImage fails inside uploadReceipt and the deletion
\* of the original fails too, the error that reaches uploadReceipt's outer
\* catch is the processing error.
DeleteFailureSwallowed ==
  (last.op = "uploadReceipt" /\ last.procFailed /\ last.delFailed) =>
    last.caught = "ProcessError"

\* C5: cleanupUploadedFiles never raises, whatever keys it is given and also
\* when the bulk delete fails; a request that ran it is answered as if the
\* deletion had worked, and batchProcessReceipts returns its results.
CleanupNeverRaises ==
  /\ last.caught # "CleanupError"
  /\ (last.op = "uploadReceipt" /\ ~last.procFailed /\ last.delFailed) =>
       last.status = 404
  /\ (last.op = "uploadMultipleReceipts" /\ last.delFailed) =>
       /\ last.status \in {201, 500}
       /\ last.status = 500 => last.caught = "DbError"
       /\ Len(last.processed) = Len(SucceededIdx)

\* C5 witness: a batch whose cleanup asked for keys that were never stored,
\* and whose bulk delete failed
CleanupFailureSeen ==
  /\ last.op = "uploadMultipleReceipts"
  /\ last.delFailed
  /\ \E k \in Submitted : k \notin DOMAIN objects \cup last.removed
  /\ \E k \in Submitted : k \in DOMAIN objects

(***************************************************************************)
(* Properties of the receipt routes.                                       *)
(***************************************************************************)
\* C6: every imageUrl and thumbnailUrl of a receipt in a response is the
\* output of getSignedUrl; a raw object key is never in a response.
ResponsesCarrySignedUrls ==
  \A j \in 1..Len(last.body) :
    /\ last.body[j].imageUrl # <<>> => IsSignedUrl(last.body[j].imageUrl)
    /\ last.body[j].thumbnailUrl # <<>> => IsSignedUrl(last.body[j].thumbnailUrl)

\* the tenant segment of an object key: <category>/<companyId>/...
TenantOf(key) ==
  LET segments == Split(key, "/")
  IN  IF Len(segments) >= 2 THEN segments[2] ELSE <<>>

\* C7: a request signs a URL for a stored object, or removes an object, only
\* under the tenant segment of the requesting user's own company.
TenantIsolation ==
  \A k \in (last.signed \cap DOMAIN objects) \cup last.removed :
    TenantOf(k) = last.companyId

\* C8: every stored receipt has totalAmount = amount + (tax or 0).
TotalAmountInvariant ==
  \A id \in DOMAIN receipts :
    receipts[id].totalAmount =
      receipts[id].amount + (IF receipts[id].tax = Undefined THEN 0 ELSE receipts[id].tax)

\* the status moves the receipt life cycle allows
AllowedTransition(from, to) ==
  \/ to = from
  \/ from = "PENDING" /\ to = "PROCESSING"
  \/ from = "PROCESSING" /\ to \in {"PROCESSED", "FAILED"}
  \/ to \in {"APPROVED", "REJECTED"}

\* C16: the status of a receipt changes only along PENDING -> PROCESSING ->
\* {PROCESSED, FAILED}, or to APPROVED or REJECTED; no request makes any
\* other change.
StatusTransitionsAllowed ==
  [][\A id \in (DOMAIN receipts) \cap (DOMAIN receipts') :
       AllowedTransition(receipts[id].status, receipts'[id].status)]_vars

\* C17: when deleteReceipt has removed a receipt record, the objects the
\* record referenced are gone from the bucket once the request is answered,
\* whatever the answer.
DeleteRemovesBlobs ==
  (last.op = "deleteReceipt" /\ last.requests # <<>>) =>
    \A k \in Submitted : k \notin DOMAIN objects

(***************************************************************************)
(* Properties of the key functions.                                        *)
(***************************************************************************)
\* C9: the thumbnail key of a key made by generateReceiptKey differs from it
\* only in the leading category segment, which becomes thumbnails, also when
\* the tenant or the file extension contains the text receipts; distinct
\* keys have distinct thumbnail keys.
ThumbnailKeyReplacesCategoryOnly ==
  derived.phase \in {"thumbs", "again"} =>
    /\ \A i \in 1..2 :
         LET ks == Split(derived.keys[i], "/")
             ts == Split(derived.thumbs[i], "/")
         IN  /\ Len(ks) = 6
             /\ Len(ts) = Len(ks)
             /\ ks[1] = RECEIPTS
             /\ ts[1] = THUMBNAILS
             /\ \A j \in 2..Len(ks) : ts[j] = ks[j]
    /\ derived.keys[1] # derived.keys[2] => derived.thumbs[1] # derived.thumbs[2]

\* C9 witness: two distinct keys, for a tenant named receipts and a tenant
\* named thumbnails, with their thumbnail keys derived
ThumbnailKeysOfNamesakesSeen ==
  /\ derived.phase = "thumbs"
  /\ derived.keys[1] # derived.keys[2]
  /\ TenantOf(derived.keys[1]) = RECEIPTS
  /\ TenantOf(derived.keys[2]) = THUMBNAILS
  /\ IndexOf(Split(derived.keys[1], "/")[6], RECEIPTS) # 0

\* C10: generateThumbnailKey applied to its own output, a thumbnails key,
\* fails with an error; it returns neither its input nor a chained key.
ThumbnailOfThumbnailFails ==
  derived.phase = "again" =>
    \A i \in 1..2 :
      /\ derived.again[i].threw
      /\ derived.again[i].value # derived.thumbs[i]

(***************************************************************************)
(* Properties of the functions of the ingestion pipeline.                  *)
(***************************************************************************)
\* the keys whose object a call created or replaced
WrittenKeys ==
  {k \in DOMAIN objects : k \notin DOMAIN call.before \/ objects[k] # call.before[k]}

\* C11: processReceiptImage neither deletes nor overwrites the object at its
\* input key, whatever the key: it writes at most one object, at a key other
\* than its input, and only when it succeeds.
ProcessingLeavesOriginal ==
  call.fn = "processReceiptImage" =>
    /\ DOMAIN call.before \subseteq DOMAIN objects
    /\ call.key \notin WrittenKeys
    /\ Cardinality(WrittenKeys) <= 1
    /\ ~call.ok => WrittenKeys = {}

\* an image validateImageRequirements refuses for its dimensions
TooSmall(content) ==
  validateImageRequirements([content |-> content, length |-> 1],
                            MaxSizeMB, MinWidth, MinHeight).cause = "DimensionsTooSmall"

\* C12: an upload of an image below the minimum dimensions (a 50x50 PNG) is
\* rejected and no receipt is created for it.
SmallImageRejected ==
  last.op = "uploadReceipt" =>
    \A i \in 1..Len(last.files) :
      (last.files[i].key \in DOMAIN objects /\ TooSmall(objects[last.files[i].key])) =>
        /\ last.created = {}
        /\ last.status # 201

\* the error processReceiptImage throws for bytes that are no image
UnreadableImageError ==
  <<processReceiptImage(PutObject(NoObjects, UploadKey, Corrupt), UploadKey, "none").error>>

\* C13: processing a PDF fails with the not-implemented error of the PDF
\* conversion, which is not the error of an unreadable image, and creates no
\* thumbnail.
PdfFailsAsUnsupported ==
  (call.fn = "processReceiptImage" /\ call.cause = "UnsupportedFormat") =>
    /\ ~call.ok
    /\ call.error = convertPdfToImage(call.before[call.key]).error
    /\ call.error # UnreadableImageError
    /\ WrittenKeys = {}

ClaimedCauses == {"InvalidFileType", "FileTooLarge", "DimensionsTooSmall",
                  "UnreadableImage", "ObjectNotFound", "StorageWriteFailure"}

\* C14: two failures of the pipeline with different causes never carry the
\* same error value.
FailureCausesDistinguishable ==
  (/\ ~call.ok
   /\ call.cause \in ClaimedCauses
   /\ call.prevCause \in ClaimedCauses
   /\ call.cause # call.prevCause) =>
    call.error # call.prevError

\* the lower-cased extension is exactly one of the allowed ones
ExactExtension(originalname) ==
  \E i \in 1..Len(ALLOWED_FILE_TYPES) :
    toLowerCase(extname(originalname)) = <<".">> \o ALLOWED_FILE_TYPES[i]

\* C15: the file filter accepts a file if and only if its lower-cased
\* extension is exactly one of jpg, jpeg, png, pdf, heic, heif and its
\* declared MIME type is in the allowlist.
FileFilterExact ==
  call.fn = "fileFilter" =>
    (call.ok <=> (/\ ExactExtension(call.file.originalname)
                  /\ call.file.mimetype \in ALLOWED_MIME_TYPES))

\* C22: the thumbnail processReceiptImage stores for an input of width w has
\* width min(w, 400): never wider than 400, an input narrower than 400 keeps
\* its width and height, and a reduced one keeps its aspect ratio (the height
\* is the scaled height rounded to the nearest pixel).
ThumbnailWidthIsMin ==
  (call.fn = "processReceiptImage" /\ call.ok) =>
    LET in == call.before[call.key]
        out == objects[generateThumbnailKey(call.key)]
    IN  /\ out.w = (IF in.w < ThumbnailWidth THEN in.w ELSE ThumbnailWidth)
        /\ out.w <= ThumbnailWidth
        /\ in.w <= ThumbnailWidth => (out.w = in.w /\ out.h = in.h)
        /\ 2 * out.h * in.w - 2 * in.h * out.w <= in.w
        /\ 2 * in.h * out.w - 2 * out.h * in.w <= in.w

\* C22 witness: a 50x50 image processed into a 50x50 thumbnail
NarrowImageNotEnlarged ==
  /\ call.fn = "processReceiptImage" /\ call.ok
  /\ call.before[call.key].w = 50
  /\ objects[generateThumbnailKey(call.key)].w = 50
  /\ objects[generateThumbnailKey(call.key)].src = call.key

\* C18: cleanupUploadedFiles issues at most one bulk delete, whose key list
\* is the given keys followed by the thumbnail key of each, and none for an
\* empty list.
CleanupOneBulkDelete ==
  call.fn = "cleanupUploadedFiles" =>
    LET n == Len(call.keys)
    IN  /\ Len(call.requests) <= 1
        /\ n = 0 => call.requests = <<>>
        /\ n > 0 =>
             /\ Len(call.requests) = 1
             /\ Len(call.requests[1]) = 2 * n
             /\ \A i \in 1..n :
                  /\ call.requests[1][i] = call.keys[i]
                  /\ call.requests[1][n + i] = generateThumbnailKey(call.keys[i])

\* C18 witness: a cleanup of two keys, one of them with no thumbnail category
CleanupOfTwoKeysSeen ==
  /\ call.fn = "cleanupUploadedFiles"
  /\ Len(call.keys) = 2
  /\ Len(call.requests) = 1
  /\ UploadKey \in DOMAIN call.before
  /\ UploadKey \notin DOMAIN objects

\* C20: the thumbnailUrl a successful processReceiptImage returns is a signed
\* URL made by getSignedUrl, and not the raw key.
ThumbnailUrlIsSigned ==
  (call.fn = "processReceiptImage" /\ call.ok) =>
    /\ IsSignedUrl(call.url)
    /\ call.url # generateThumbnailKey(call.key)

(***************************************************************************)
(* Properties of concurrent uploads.                                       *)
(***************************************************************************)
\* C19: whatever the interleaving of concurrent uploads, no object key is
\* written, read for processing or cleaned up by two uploads: every original
\* key and every thumbnail key belongs to one upload.
KeysBelongToOneUpload ==
  \A i \in 1..Len(inflight), j \in 1..Len(inflight) :
    i # j => inflight[i].touched \cap inflight[j].touched = {}

\* C19 witness: two uploads of the same user, a single one and a batch, both
\* half way through processing with a thumbnail written by each
ConcurrentUploadsSeen ==
  \E i \in 1..Len(inflight), j \in 1..Len(inflight) :
    /\ i # j
    /\ inflight[i].userId = inflight[j].userId
    /\ inflight[i].kind = "single" /\ inflight[j].kind = "batch"
    /\ inflight[i].pc = "processing" /\ inflight[j].pc = "processing"
    /\ \E a \in 1..Len(inflight[i].keys) : inflight[i].results[a] = "ok"
    /\ \E b \in 1..Len(inflight[j].keys) : inflight[j].results[b] = "ok"
    /\ \E b \in 1..Len(inflight[j].keys) : inflight[j].results[b] = "todo"

(***************************************************************************)
(* Properties of generateReceiptKey and the clock.                         *)
(***************************************************************************)
\* the key the n-th call is to return for the arguments a: year and month of
\* the instant in UTC
UtcKey(a, n) ==
  RECEIPTS \o SLASH \o a.companyId \o SLASH \o NumToString(UtcDate(a.instant).year)
    \o SLASH \o padStart(NumToString(UtcDate(a.instant).month + 1), 2, "0")
    \o SLASH \o a.userId \o SLASH \o uuidv4(n) \o toLowerCase(extname(a.filename))

\* C21: generateReceiptKey returns receipts/{tenant}/{year}/{month}/{owner}/
\* {uniqueId}{ext} with the year and the two-digit month of the current UTC
\* time, a fresh uniqueId and the lower-cased extension of the file name; two
\* calls with the same arguments return different keys.
ReceiptKeyUsesUtcMonth ==
  /\ derived.phase \in {"first", "second"} =>
       \A n \in 1..Len(derived.keys) : derived.keys[n] = UtcKey(derived.args[1], n)
  /\ derived.phase = "second" => derived.keys[1] # derived.keys[2]

(***************************************************************************)
(* Properties of concurrent requests on the database.                      *)
(***************************************************************************)
\* C23: when updateReceipt requests on the same receipt interleave, one
\* changing only amount and the other only tax, the receipt stored once they
\* have completed still has totalAmount = amount + (tax or 0).
TotalAmountAfterConcurrentUpdates ==
  (\A i \in 1..Len(inflight) : inflight[i].op # "updateReceipt") =>
    \A id \in DOMAIN receipts :
      receipts[id].totalAmount =
        receipts[id].amount + (IF receipts[id].tax = Undefined THEN 0 ELSE receipts[id].tax)

\* C27: a job that a receipt references is not deleted, and no receipt loses
\* its jobId through a job deletion, also when deleteJob interleaves with a
\* createReceipt or updateReceipt that attaches a receipt to the job.
JobWithReceiptsNotDeleted ==
  [][\A id \in DOMAIN receipts :
       receipts[id].jobId # NoJob =>
         /\ receipts[id].jobId \in DOMAIN jobs'
         /\ (id \in DOMAIN receipts' /\ receipts'[id].jobId = NoJob) =>
              last'.op = "updateReceipt"]_vars

(***************************************************************************)
(* Properties of the receipt records: roles and tenants.                   *)
(***************************************************************************)
Decisions == {"APPROVED", "REJECTED"}

Foreign(u, id) == id \in DOMAIN receipts /\ receipts[id].companyId # u.companyId

OwnIds(u) == {id \in DOMAIN receipts : receipts[id].companyId = u.companyId}

\* the step changed neither the tables nor the bucket
Untouched == receipts' = receipts /\ jobs' = jobs /\ objects' = objects

\* the step returned no receipt
NothingReturned == last'.body = <<>> /\ last'.signed = {}

\* getReceipts returns the receipts of the user's company and no other, and
\* a step changes or removes only receipts of the company of its user
OwnReceiptsOnly ==
  /\ \A u \in RoleUsers :
       GetReceipts(u) =>
         /\ Len(last'.body) = Cardinality(OwnIds(u))
         /\ last'.signed = {receipts[id].imageUrl : id \in OwnIds(u)}
         /\ Untouched
  /\ \A id \in DOMAIN receipts :
       (id \notin DOMAIN receipts' \/ receipts'[id] # receipts[id])
       => last'.companyId = receipts[id].companyId

\* C25 as stated: getReceipts, getReceipt, updateReceipt and deleteReceipt
\* of a user never return, modify or delete a receipt of another company,
\* and a request for a foreign receipt id is answered 404 with no state
\* change.
ForeignReceiptAnswered404 ==
  [][/\ OwnReceiptsOnly
     /\ \A u \in RoleUsers, id \in 1..MaxReceipts :
          Foreign(u, id) =>
            /\ GetReceipt(u, id) => (last'.status = 404 /\ NothingReturned /\ Untouched)
            /\ \A body \in RoleUpdateBodies :
                 UpdateReceipt(u, id, body) =>
                   (last'.status = 404 /\ NothingReturned /\ Untouched)
            /\ DeleteReceipt(u, id, FALSE) =>
                 (last'.status = 404 /\ NothingReturned /\ Untouched)]_vars

\* C25 amended: the same isolation, where the request for a foreign receipt
\* id is refused with no state change and nothing returned: 404, except 403
\* for a deleteReceipt of a user who is not ADMIN and 400 for an
\* updateReceipt whose body fails validation, both decided before the lookup.
ForeignReceiptRefused ==
  [][/\ OwnReceiptsOnly
     /\ \A u \in RoleUsers, id \in 1..MaxReceipts :
          Foreign(u, id) =>
            /\ GetReceipt(u, id) => (last'.status = 404 /\ NothingReturned /\ Untouched)
            /\ \A body \in RoleUpdateBodies :
                 UpdateReceipt(u, id, body) =>
                   /\ last'.status = (IF body.amount # Undefined /\ body.amount <= 0
                                      THEN 400 ELSE 404)
                   /\ NothingReturned /\ Untouched
            /\ DeleteReceipt(u, id, FALSE) =>
                 /\ last'.status = (IF u.role # "ADMIN" THEN 403 ELSE 404)
                 /\ NothingReturned /\ Untouched]_vars

\* C25 witness: the ADMIN of one company has asked to delete the receipt of
\* the other company and was answered 404; the receipt is still there
ForeignDeleteRefused ==
  /\ last.op = "deleteReceipt" /\ last.status = 404
  /\ DOMAIN receipts = {1}
  /\ receipts[1].companyId # last.companyId

\* C29: a receipt has an approvedAt only if its status is APPROVED and a
\* rejectionReason only if its status is REJECTED.
DecisionFieldsMatchStatus ==
  \A id \in DOMAIN receipts :
    /\ receipts[id].approvedAt => receipts[id].status = "APPROVED"
    /\ receipts[id].rejectionReason # "" => receipts[id].status = "REJECTED"

(***************************************************************************)
(* Properties of receipts and their jobs.                                  *)
(***************************************************************************)
\* C28: every receipt with a jobId references a job that exists and whose
\* companyId is the receipt's companyId.
ReceiptJobSameCompany ==
  \A id \in DOMAIN receipts :
    receipts[id].jobId # NoJob =>
      /\ receipts[id].jobId \in DOMAIN jobs
      /\ jobs[receipts[id].jobId].companyId = receipts[id].companyId

\* C28 witness: a receipt of company cB has just been attached to a job by
\* updateReceipt
ReceiptAttachedToJob ==
  /\ last.op = "updateReceipt" /\ last.status = 200
  /\ \E id \in DOMAIN receipts :
       /\ receipts[id].jobId # NoJob
       /\ receipts[id].companyId = CompanyB

ValidToken(token) ==
  token.present /\ token.verified /\ token.payload.userId \in ActiveUserIds

\* C26: no object is written for an upload request that is not
\* authenticated: on both upload routes a request has stored something only
\* if authenticate completed with a valid token of an existing active user
\* before, nothing is in the bucket without such a request, and a request
\* whose req.user lacks companyId or userId is refused by the key callback
\* with 'User authentication required' and stores nothing.
NoStoreBeforeAuthentication ==
  /\ \A i \in 1..Len(inflight) :
       /\ inflight[i].wrote # {} =>
            (inflight[i].authenticated /\ ValidToken(inflight[i].token))
       /\ inflight[i].pc \notin {"authenticate", "upload"} /\ ~ValidToken(inflight[i].token) =>
            (inflight[i].status = 401 /\ inflight[i].wrote = {})
       /\ ( /\ inflight[i].pc = "answered"
            /\ inflight[i].authenticated
            /\ KeyCallbackFails(inflight[i].user) )
          => /\ inflight[i].status = 400
             /\ inflight[i].error = "User authentication required"
             /\ inflight[i].wrote = {}
  /\ DOMAIN objects # {} =>
       \E i \in 1..Len(inflight) : inflight[i].wrote # {} /\ ValidToken(inflight[i].token)

\* C26 witness: a request with a rejected token answered 401, a request whose
\* token lacks companyId answered by the key callback, and the bucket holding
\* only what an authenticated request stored
AuthenticatedUploadSeen ==
  /\ \E i \in 1..Len(inflight) :
       inflight[i].error = "User authentication required" /\ inflight[i].wrote = {}
  /\ \E i \in 1..Len(inflight) :
       /\ inflight[i].authenticated /\ inflight[i].wrote # {}
       /\ inflight[i].wrote \subseteq DOMAIN objects

=============================================================================
